---- MODULE Spec2Model ----
(***************************************************************************)
(* Model of the cloud log tailer of k6 (cloudapi/logs.go):                 *)
(*   - StreamLogsToLogger: the read loop, the cancellation watcher and the *)
(*     msgBuffer consumer, with the connection handle guarded by mconn;    *)
(*   - msg.Log and msgStreams.LatestTimestamp;                             *)
(*   - timestampTrack (Set, TimeOrNow);                                    *)
(*   - retry, with time.Duration kept as a 64-bit two's complement number. *)
(***************************************************************************)
EXTENDS Integers, Sequences, FiniteSets, TLC

\* ------------------------------------------------------------------ bounds
\* Frames the server may deliver during one session.
MaxFrames == 2
\* Network read errors that may hit one session (each may cause one redial).
MaxReadErrors == 1
\* The same two bounds in the specification with fairness.
LiveFrames == 1
LiveReadErrors == 2
\* The same two bounds in the specification that fills the queue.
QueueFrames == 12
QueueReadErrors == 1
\* Largest `attempts` handed to retry in the retry specification.
MaxAttempts == 16
\* Set calls recorded in the tracker specification.
MaxSets == 3

\* ------------------------------------------------------- program constants
\* make(chan []byte, 10)
Capacity == 10
\* retry(sleeperFunc(time.Sleep), 3, ...) in logtailConn
DialAttempts == 3
\* 1 * time.Millisecond, in nanoseconds
Millisecond == 1000000
\* r.Int63n(1000)
JitterRange == 1000

\* ---------------------------------------------------- strings and parsing
\* A decimal string is kept as the sequence of its characters, so that
\* strconv.ParseInt / strconv.Atoi are computed, not assumed.
Digits == <<"0", "1", "2", "3", "4", "5", "6", "7", "8", "9">>

IsDigit(c) == \E d \in 1..10 : Digits[d] = c

DigitVal(c) == (CHOOSE d \in 1..10 : Digits[d] = c) - 1

RECURSIVE DigitsValue(_, _)
DigitsValue(s, acc) ==
    IF s = <<>> THEN acc
    ELSE DigitsValue(Tail(s), acc * 10 + DigitVal(Head(s)))

\* strconv.ParseInt(raw, 10, 64): optional sign, then at least one digit and
\* nothing but digits.  The strings of the model are far below 19 digits, so
\* the range error never arises.
ParseInt(raw) ==
    LET signed == raw # <<>> /\ Head(raw) \in {"+", "-"}
        body   == IF signed THEN Tail(raw) ELSE raw
        ok     == body # <<>> /\ \A k \in 1..Len(body) : IsDigit(body[k])
        mag    == IF ok THEN DigitsValue(body, 0) ELSE 0
    IN  [val |-> IF signed /\ Head(raw) = "-" THEN 0 - mag ELSE mag,
         err |-> ~ok]

\* strconv.Atoi(s): same syntax; the value is 0 when err is set.
Atoi(s) == ParseInt(s)

\* logrus.ParseLevel: the recognized severities.
ParseLevel(level) ==
    LET known == {"panic", "fatal", "error", "warn", "warning",
                  "info", "debug", "trace"}
    IN  [lvl |-> IF level = "warning" THEN "warn" ELSE level,
         err |-> level \notin known]

\* ------------------------------------------------------------ wire format
\* The payloads the server may put on the wire.  `valid` says whether the
\* bytes are a JSON document of the msg shape; the rest is the document.
T100 == <<"1", "0", "0">>
T200 == <<"2", "0", "0">>
T250 == <<"2", "5", "0">>
T300 == <<"3", "0", "0">>
T500 == <<"5", "0", "0">>
TNeg == <<"-", "7">>
TBad == <<"a", "b", "c">>

FrameWarn ==
    [raw |-> "warn", valid |-> TRUE,
     Streams |-> << [Stream |-> [level |-> "warn", job |-> "x"],
                     Values |-> << <<T200, "hello">>, <<T100, "older">> >>] >>,
     DroppedEntries |-> << >>]

FrameMixed ==
    [raw |-> "mixed", valid |-> TRUE,
     Streams |-> << [Stream |-> [job |-> "y"],
                     Values |-> << <<TBad, "t">> >>],
                    [Stream |-> [level |-> "bogus", job |-> "z"],
                     Values |-> << <<T300, "u">>, <<T250, "v">> >>] >>,
     DroppedEntries |-> << [Labels |-> [job |-> "x"], Timestamp |-> T500] >>]

FrameQuiet ==
    [raw |-> "quiet", valid |-> TRUE,
     Streams |-> << [Stream |-> [level |-> "info"], Values |-> << >>],
                    [Stream |-> [level |-> "info"],
                     Values |-> << <<TNeg, "n">> >>] >>,
     DroppedEntries |-> << [Labels |-> [level |-> "error"],
                            Timestamp |-> T500] >>]

FrameGarbage ==
    [raw |-> "garbage", valid |-> FALSE,
     Streams |-> << >>, DroppedEntries |-> << >>]

FramePool == {FrameWarn, FrameMixed, FrameQuiet, FrameGarbage}

\* easyjson.Unmarshal(message, &m)
Unmarshal(message) ==
    [err |-> ~message.valid,
     m   |-> [Streams |-> message.Streams,
              DroppedEntries |-> message.DroppedEntries]]

\* ------------------------------------------------- msgStreams and msg.Log
LatestTimestampLast(ms) ==
    IF Len(ms.Values) < 1 THEN 0
    ELSE LET p == ParseInt(ms.Values[Len(ms.Values)][1])
         IN  IF p.err THEN 0 ELSE p.val

\* msgStreams.LatestTimestamp
LatestTimestamp(ms) ==
    IF Len(ms.Values) < 1 THEN 0
    ELSE LET p == ParseInt(ms.Values[1][1])
         IN  IF p.err THEN 0 ELSE p.val

labelsToLogrusFields(labels) == [key \in DOMAIN labels |-> labels[key]]

KeepKey(fields, key) == fields

\* delete(fields, "level")
DeleteKey(fields, key) == [k \in DOMAIN fields \ {key} |-> fields[k]]

\* One sink record.  origin = <<frame, stream, value>> is the position of
\* the wire value the record was produced from (<<frame, 0, 0>> when the
\* record does not come from a StreamEntry value).
Record(lvl, fields, time, text, origin) ==
    [lvl |-> lvl, fields |-> fields, time |-> time, msg |-> text,
     origin |-> origin]

\* time.Unix(0, nsec)
Unix(nsec) == [wall |-> FALSE, ns |-> nsec]

\* time.Now(), which is what logrus stamps on an entry without WithTime
Now == [wall |-> TRUE, ns |-> 0]

ValueRecordsInfoOnly(level, fields, value, origin) ==
    LET nsec == Unix(Atoi(value[1]).val)
        pl   == ParseLevel(level)
    IN  << Record(IF pl.err THEN "info" ELSE pl.lvl, fields, nsec,
                  <<value[2]>>, origin) >>

\* The body of the inner loop of msg.Log for one value.
ValueRecords(level, fields, value, origin) ==
    LET nsec == Unix(Atoi(value[1]).val)
        pl   == ParseLevel(level)
    IN  IF pl.err
        THEN << Record("info", fields, nsec, <<value[2]>>, origin),
                Record("warn", fields, nsec,
                       <<"last message had unknown level ", level>>, origin) >>
        ELSE << Record(pl.lvl, fields, nsec, <<value[2]>>, origin) >>

RangeValuesSorted(values) ==
    [k \in 1..Len(values) |-> Len(values) + 1 - k]

\* for _, value := range stream.Values: the indices in the order visited
RangeValues(values) == [k \in 1..Len(values) |-> k]

RECURSIVE StreamRecords(_, _, _, _, _, _)
StreamRecords(level, fields, values, order, k, at) ==
    IF k > Len(order) THEN << >>
    ELSE ValueRecords(level, fields, values[order[k]], <<at[1], at[2], order[k]>>)
         \o StreamRecords(level, fields, values, order, k + 1, at)

RECURSIVE StreamsRecords(_, _, _)
StreamsRecords(streams, s, frame) ==
    IF s > Len(streams) THEN << >>
    ELSE LET stream == streams[s]
             ok     == "level" \in DOMAIN stream.Stream
             level  == IF ok THEN stream.Stream["level"] ELSE ""
             all    == labelsToLogrusFields(stream.Stream)
             fields == IF ok THEN DeleteKey(all, "level") ELSE all
         IN  StreamRecords(level, fields, stream.Values,
                           RangeValues(stream.Values), 1, <<frame, s>>)
             \o StreamsRecords(streams, s + 1, frame)

DroppedRecords(dropped, frame) ==
    [d \in 1..Len(dropped) |->
        Record("warn", labelsToLogrusFields(dropped[d].Labels),
               Unix(Atoi(dropped[d].Timestamp).val), <<"dropped">>, <<frame, 0, 0>>)]

\* msg.Log: the records written to the logger, in order.
Log(m, frame) ==
    StreamsRecords(m.Streams, 1, frame) \o DroppedRecords(m.DroppedEntries, frame)

\* The loop `for _, stream := range m.Streams { sts := ...; if sts > ts ... }`
RECURSIVE BatchTimestamp(_, _, _)
BatchTimestamp(streams, s, acc) ==
    IF s > Len(streams) THEN acc
    ELSE LET sts == LatestTimestamp(streams[s])
         IN  BatchTimestamp(streams, s + 1, IF sts > acc THEN sts ELSE acc)

\* ---------------------------------------------------------- timestampTrack
SetMax(cur, arg) == IF arg > cur THEN arg ELSE cur

\* timestampTrack.Set: the value stored after Set(arg) when cur was stored.
Set(cur, arg) == IF arg < 1 THEN cur ELSE arg

\* timestampTrack.TimeOrNow: wall = TRUE stands for time.Now() read at the
\* call, otherwise ns is the returned instant in unix nanoseconds.
TimeOrNowExact(cur) == IF cur > 0 THEN Unix(cur) ELSE Now

TimeOrNow(cur) == IF cur > 0 THEN Unix(cur + Millisecond) ELSE Now

\* ------------------------------------------------- time.Duration (int64)
\* A time.Duration is an int64 count of nanoseconds.  It is kept as its two's
\* complement representation, least significant byte first, so that the
\* products and sums of retry wrap exactly as they do in Go.  The same
\* operators at a larger width give the numbers without wrapping.
Bytes64 == 8

\* n in 0 .. 2^31-1 as w bytes
NatBytes(n, w) ==
    [p \in 1..w |-> IF p = 1 THEN n % 256
                    ELSE IF p = 2 THEN (n \div 256) % 256
                    ELSE IF p = 3 THEN (n \div 65536) % 256
                    ELSE IF p = 4 THEN n \div 16777216
                    ELSE 0]

RECURSIVE MulFrom(_, _, _, _)
MulFrom(a, m, p, carry) ==
    IF p > Len(a) THEN << >>
    ELSE LET v == a[p] * m + carry
         IN  <<v % 256>> \o MulFrom(a, m, p + 1, v \div 256)

\* a * m for 0 <= m <= 10^6, wrapping at the width of a
Mul(a, m) == MulFrom(a, m, 1, 0)

RECURSIVE AddFrom(_, _, _, _)
AddFrom(a, b, p, carry) ==
    IF p > Len(a) THEN << >>
    ELSE LET v == a[p] + b[p] + carry
         IN  <<v % 256>> \o AddFrom(a, b, p + 1, v \div 256)

\* a + b, wrapping at the width of a
Add(a, b) == AddFrom(a, b, 1, 0)

\* the sign bit
IsNegative(a) == a[Len(a)] >= 128

RECURSIVE AboveFrom(_, _, _)
AboveFrom(a, b, p) ==
    IF p = 0 THEN FALSE
    ELSE IF a[p] # b[p] THEN a[p] > b[p]
    ELSE AboveFrom(a, b, p - 1)

\* a > b for signed numbers of the same width
Greater(a, b) ==
    IF IsNegative(a) # IsNegative(b) THEN IsNegative(b)
    ELSE AboveFrom(a, b, Len(a))

\* d * time.Second and d * time.Millisecond
Seconds(a) == Mul(Mul(a, 1000), 1000000)

Milliseconds(a) == Mul(a, 1000000)

\* math.Pow(base, float64(i)) converted to an integer: base and i are whole
\* and base^i stays below 2^53 for the inputs of the model, so the float64
\* result is the exact power.
RECURSIVE Pow(_, _, _)
Pow(base, i, w) ==
    IF i = 0 THEN NatBytes(1, w) ELSE Mul(Pow(base, i - 1, w), base)

\* ------------------------------------------------------------------- retry
\* interval.Truncate(time.Second).Seconds(), for an interval given in
\* milliseconds: Truncate rounds toward zero.
TruncateSeconds(ms) ==
    IF ms >= 0 THEN ms \div 1000 ELSE 0 - ((0 - ms) \div 1000)

Abs(x) == IF x < 0 THEN 0 - x ELSE x

\* baseInterval := math.Abs(interval.Truncate(time.Second).Seconds())
BaseInterval(interval) == Abs(TruncateSeconds(interval))

\* Lines 282-287: the wait before the call with loop index i, for the jitter
\* r.Int63n(1000) = jitter and max given in milliseconds.
Wait(baseInterval, i, jitter, max) ==
    LET first == Seconds(Pow(baseInterval, i, Bytes64))
        wait  == Add(first, Milliseconds(NatBytes(jitter, Bytes64)))
        cap   == Milliseconds(NatBytes(max, Bytes64))
    IN  IF Greater(wait, cap) THEN cap ELSE wait

LoopConditionOffByOne(i, attempts) == i <= attempts

\* i < int(attempts)
LoopCondition(i, attempts) == i < attempts

\* ------------------------------------------------------------------ state
VARIABLES
    ctxDone,     \* ctx.Done() is closed
    pcMain,      \* position of StreamLogsToLogger
    ret,         \* value returned by StreamLogsToLogger ("none" while running)
    conn,        \* the conn variable: index into conns, 0 before the dial
    newconn,     \* the newconn local of the reconnect path
    conns,       \* every connection dialled so far
    mconn,       \* holder of the mutex: "free", "main" or "watcher"
    pcWatcher,   \* position of the goroutine waiting on ctx.Done()
    msgBuffer,   \* contents of the channel
    bufClosed,   \* number of close(msgBuffer) executed
    pcConsumer,  \* position of the goroutine ranging over msgBuffer
    cur,         \* the message the consumer took from the channel
    message,     \* result of conn.ReadMessage()
    err,         \* error of conn.ReadMessage()
    since,       \* the `since` argument of the dial in progress
    dialTry,     \* the loop index i of retry inside logtailConn
    ts,          \* timestampTrack.ts
    setLog,      \* arguments of the Set calls so far, oldest first
    sink,        \* records written to the logger, oldest first
    nRead,       \* number of messages read off connections so far
    framesLeft,  \* messages the server may still deliver
    errsLeft,    \* network errors that may still happen
    cancelAt,    \* position of the main loop when ctx was cancelled
    rt           \* state of one call of retry (retry specification)

mainVars    == <<pcMain, ret, message, err, since, dialTry, newconn>>
connVars    == <<conn, conns, mconn>>
envVars     == <<ctxDone, cancelAt, framesLeft, errsLeft, nRead>>
pipeVars    == <<msgBuffer, bufClosed, pcConsumer, cur>>
outVars     == <<sink, ts, setLog>>
vars == <<ctxDone, pcMain, ret, conn, newconn, conns, mconn, pcWatcher,
          msgBuffer, bufClosed, pcConsumer, cur, message, err, since,
          dialTry, ts, setLog, sink, nRead, framesLeft, errsLeft, cancelAt, rt>>

NoMessage == [seq |-> 0, body |-> FrameGarbage]

\* retry is not running
RetryIdle == [pc |-> "idle"]

\* time.Now().Add(-tailFrom), kept symbolic
LookBack == [wall |-> TRUE, ns |-> -1]

SessionStart(frames, errors) ==
    /\ ctxDone = FALSE
    /\ pcMain = "dial"
    /\ ret = "none"
    /\ conn = 0
    /\ newconn = 0
    /\ conns = << >>
    /\ mconn = "free"
    /\ pcWatcher = "idle"
    /\ msgBuffer = << >>
    /\ bufClosed = 0
    /\ pcConsumer = "idle"
    /\ cur = NoMessage
    /\ message = NoMessage
    /\ err = "nil"
    /\ since = LookBack
    /\ dialTry = 0
    /\ ts = 0
    /\ setLog = << >>
    /\ sink = << >>
    /\ nRead = 0
    /\ framesLeft = frames
    /\ errsLeft = errors
    /\ cancelAt = "none"

Init == SessionStart(MaxFrames, MaxReadErrors) /\ rt = RetryIdle

\* ------------------------------------------------------------ environment
\* The caller cancels ctx.
Cancel ==
    /\ ~ctxDone
    /\ ctxDone' = TRUE
    /\ cancelAt' = pcMain
    /\ UNCHANGED <<mainVars, connVars, pipeVars, outVars, pcWatcher,
                   framesLeft, errsLeft, nRead, rt>>

\* ------------------------------------------------------------- logtailConn
\* websocket.DefaultDialer.DialContext succeeded: the new connection.
Dialled(start) == [open |-> TRUE, closeCtl |-> 0, start |-> start]

\* One call of the closure handed to retry succeeds.  DialContext fails on
\* a cancelled ctx, so a success needs ctx not to be done.
InitialDialOk ==
    /\ pcMain = "dial"
    /\ ~ctxDone
    /\ conns' = Append(conns, Dialled(since))
    /\ conn' = Len(conns) + 1
    /\ pcMain' = "read"
    /\ pcWatcher' = "wait"
    /\ pcConsumer' = "recv"
    /\ UNCHANGED <<ret, message, err, since, dialTry, newconn, mconn,
                   msgBuffer, bufClosed, cur, outVars, envVars, rt>>

\* One call of the closure fails; after the last attempt logtailConn returns
\* the error and StreamLogsToLogger returns it (line 145).
InitialDialFail ==
    /\ pcMain = "dial"
    /\ dialTry' = dialTry + 1
    /\ IF dialTry + 1 = DialAttempts
       THEN pcMain' = "done" /\ ret' = "dialErr"
       ELSE UNCHANGED <<pcMain, ret>>
    /\ UNCHANGED <<message, err, since, newconn, connVars, pipeVars,
                   outVars, envVars, pcWatcher, rt>>

\* ---------------------------------------------------------- the main loop
ConnOpen(c) == conns[c].open

\* conn.ReadMessage() returns a message.
ReadMessage(frame) ==
    /\ pcMain = "read"
    /\ ConnOpen(conn)
    /\ framesLeft > 0
    /\ message' = [seq |-> nRead + 1, body |-> frame]
    /\ err' = "nil"
    /\ nRead' = nRead + 1
    /\ framesLeft' = framesLeft - 1
    /\ pcMain' = "chk"
    /\ UNCHANGED <<ret, since, dialTry, newconn, connVars, pipeVars,
                   outVars, pcWatcher, ctxDone, cancelAt, errsLeft, rt>>

\* conn.ReadMessage() fails because of the network or the server.
ReadNetError ==
    /\ pcMain = "read"
    /\ ConnOpen(conn)
    /\ errsLeft > 0
    /\ message' = NoMessage
    /\ err' = "readNet"
    /\ errsLeft' = errsLeft - 1
    /\ pcMain' = "chk"
    /\ UNCHANGED <<ret, since, dialTry, newconn, connVars, pipeVars,
                   outVars, pcWatcher, ctxDone, cancelAt, framesLeft, nRead, rt>>

\* conn.ReadMessage() fails because conn.Close() was called on it.
ReadClosed ==
    /\ pcMain = "read"
    /\ ~ConnOpen(conn)
    /\ message' = NoMessage
    /\ err' = "readClosed"
    /\ pcMain' = "chk"
    /\ UNCHANGED <<ret, since, dialTry, newconn, connVars, pipeVars,
                   outVars, pcWatcher, envVars, rt>>

ReturnNoClose(v) ==
    /\ pcMain' = "done"
    /\ ret' = v
    /\ bufClosed' = bufClosed

\* return v, with the deferred close(msgBuffer)
Return(v) ==
    /\ pcMain' = "done"
    /\ ret' = v
    /\ bufClosed' = bufClosed + 1

ReadWarning(e) ==
    Record("warn", [error |-> e], Now,
           <<"error reading a log message from the cloud">>, <<0, 0, 0>>)

\* Lines 195-212: the select on ctx.Done() after the read, then either the
\* warning and latest.TimeOrNow() of the reconnect path, or on to the forward.
MainCheck ==
    /\ pcMain = "chk"
    /\ IF ctxDone
       THEN /\ Return("nil")
            /\ UNCHANGED <<since, dialTry, sink>>
       ELSE IF err # "nil"
       THEN /\ sink' = Append(sink, ReadWarning(err))
            /\ since' = TimeOrNow(ts)
            /\ dialTry' = 0
            /\ pcMain' = "redial"
            /\ UNCHANGED <<ret, bufClosed>>
       ELSE /\ pcMain' = "fwd"
            /\ UNCHANGED <<ret, bufClosed, since, dialTry, sink>>
    /\ UNCHANGED <<message, err, newconn, connVars, msgBuffer, pcConsumer,
                   cur, ts, setLog, pcWatcher, envVars, rt>>

\* The reconnect dial: one call of the closure succeeds (errd == nil).
RedialOk ==
    /\ pcMain = "redial"
    /\ ~ctxDone
    /\ conns' = Append(conns, Dialled(since))
    /\ newconn' = Len(conns) + 1
    /\ pcMain' = "lock"
    /\ UNCHANGED <<ret, message, err, since, dialTry, conn, mconn, pipeVars,
                   outVars, pcWatcher, envVars, rt>>

ReturnDialError(readErr, dialErr) == dialErr

\* `return err` at line 221: what the reconnect path returns when the dial
\* failed with dialErr after the read failed with readErr.
ReturnMainError(readErr, dialErr) == readErr

\* One call of the closure fails; after the last attempt errd != nil.
RedialFail ==
    /\ pcMain = "redial"
    /\ dialTry' = dialTry + 1
    /\ IF dialTry + 1 = DialAttempts
       THEN Return(ReturnMainError(err, "dialErr"))
       ELSE UNCHANGED <<pcMain, ret, bufClosed>>
    /\ UNCHANGED <<message, err, since, newconn, connVars, msgBuffer,
                   pcConsumer, cur, outVars, pcWatcher, envVars, rt>>

MainLockNoWait ==
    /\ pcMain = "lock"
    /\ mconn' = "main"
    /\ pcMain' = "swap"
    /\ UNCHANGED <<ret, message, err, since, dialTry, newconn, conn, conns,
                   pipeVars, outVars, pcWatcher, envVars, rt>>

\* mconn.Lock() at line 214
MainLock ==
    /\ pcMain = "lock"
    /\ mconn = "free"
    /\ mconn' = "main"
    /\ pcMain' = "swap"
    /\ UNCHANGED <<ret, message, err, since, dialTry, newconn, conn, conns,
                   pipeVars, outVars, pcWatcher, envVars, rt>>

\* conn = newconn; mconn.Unlock(); continue
MainSwap ==
    /\ pcMain = "swap"
    /\ conn' = newconn
    /\ mconn' = "free"
    /\ pcMain' = "read"
    /\ UNCHANGED <<ret, message, err, since, dialTry, newconn, conns,
                   pipeVars, outVars, pcWatcher, envVars, rt>>

ForwardSendUnbounded ==
    /\ pcMain = "fwd"
    /\ bufClosed = 0
    /\ msgBuffer' = Append(msgBuffer, message)
    /\ pcMain' = "read"
    /\ UNCHANGED <<ret, message, err, since, dialTry, newconn, connVars,
                   bufClosed, pcConsumer, cur, outVars, pcWatcher, envVars, rt>>

\* select at line 224, case msgBuffer <- message
ForwardSend ==
    /\ pcMain = "fwd"
    /\ Len(msgBuffer) < Capacity
    /\ bufClosed = 0
    /\ msgBuffer' = Append(msgBuffer, message)
    /\ pcMain' = "read"
    /\ UNCHANGED <<ret, message, err, since, dialTry, newconn, connVars,
                   bufClosed, pcConsumer, cur, outVars, pcWatcher, envVars, rt>>

\* select at line 224, case <-ctx.Done()
ForwardCancelled ==
    /\ pcMain = "fwd"
    /\ ctxDone
    /\ Return("nil")
    /\ UNCHANGED <<message, err, since, dialTry, newconn, connVars,
                   msgBuffer, pcConsumer, cur, outVars, pcWatcher, envVars, rt>>

\* ------------------------------------------------ the cancellation watcher
WatcherNoWait == TRUE

\* <-ctx.Done() at line 149
WatcherWoken == ctxDone

\* <-ctx.Done(); mconn.Lock()
WatcherLock ==
    /\ pcWatcher = "wait"
    /\ WatcherWoken
    /\ mconn = "free"
    /\ mconn' = "watcher"
    /\ pcWatcher' = "write"
    /\ UNCHANGED <<mainVars, conn, conns, pipeVars, outVars, envVars, rt>>

\* conn.WriteControl(websocket.CloseMessage, ...)
WatcherWriteControl ==
    /\ pcWatcher = "write"
    /\ conns' = [conns EXCEPT ![conn].closeCtl = @ + 1]
    /\ pcWatcher' = "close"
    /\ UNCHANGED <<mainVars, conn, mconn, pipeVars, outVars, envVars, rt>>

WatcherSkipClose ==
    /\ pcWatcher = "close"
    /\ mconn' = "free"
    /\ pcWatcher' = "done"
    /\ UNCHANGED <<mainVars, conn, conns, pipeVars, outVars, envVars, rt>>

\* conn.Close() and the deferred mconn.Unlock()
WatcherClose ==
    /\ pcWatcher = "close"
    /\ conns' = [conns EXCEPT ![conn].open = FALSE]
    /\ mconn' = "free"
    /\ pcWatcher' = "done"
    /\ UNCHANGED <<mainVars, conn, pipeVars, outVars, envVars, rt>>

\* ------------------------------------------------------------ the consumer
\* for message := range msgBuffer: the next message
ConsumerRecv ==
    /\ pcConsumer = "recv"
    /\ msgBuffer # << >>
    /\ cur' = Head(msgBuffer)
    /\ msgBuffer' = Tail(msgBuffer)
    /\ pcConsumer' = "proc"
    /\ UNCHANGED <<mainVars, connVars, bufClosed, outVars, pcWatcher,
                   envVars, rt>>

\* for message := range msgBuffer: the channel is closed and drained
ConsumerExit ==
    /\ pcConsumer = "recv"
    /\ msgBuffer = << >>
    /\ bufClosed > 0
    /\ pcConsumer' = "done"
    /\ UNCHANGED <<mainVars, connVars, msgBuffer, bufClosed, cur, outVars,
                   pcWatcher, envVars, rt>>

UnmarshalError(m) ==
    Record("error", [error |-> "unmarshal"], Now,
           <<"couldn't unmarshal a message from the cloud: ", m.body.raw>>,
           <<m.seq, 0, 0>>)

StopOnDecodeError == "done"

\* `continue` at line 173: where the consumer goes after a decode error
AfterDecodeError == "recv"

\* The body of the consumer loop, lines 168-189.
ConsumerProcess ==
    /\ pcConsumer = "proc"
    /\ LET u == Unmarshal(cur.body)
       IN  IF u.err
           THEN /\ sink' = Append(sink, UnmarshalError(cur))
                /\ pcConsumer' = AfterDecodeError
                /\ UNCHANGED <<ts, setLog>>
           ELSE LET arg == BatchTimestamp(u.m.Streams, 1, 0)
                IN  /\ sink' = sink \o Log(u.m, cur.seq)
                    /\ ts' = Set(ts, arg)
                    /\ setLog' = Append(setLog, arg)
                    /\ pcConsumer' = "recv"
    /\ UNCHANGED <<mainVars, connVars, msgBuffer, bufClosed, cur, pcWatcher,
                   envVars, rt>>

\* ---------------------------------------------------------- specification
MainStep ==
    \/ InitialDialOk
    \/ InitialDialFail
    \/ ReadClosed
    \/ MainCheck
    \/ RedialOk
    \/ RedialFail
    \/ MainLock
    \/ MainSwap
    \/ ForwardSend
    \/ ForwardCancelled

WatcherStep ==
    \/ WatcherLock
    \/ WatcherWriteControl
    \/ WatcherClose

ConsumerStep ==
    \/ ConsumerRecv
    \/ ConsumerExit
    \/ ConsumerProcess

Next ==
    \/ Cancel
    \/ \E frame \in FramePool : ReadMessage(frame)
    \/ ReadNetError
    \/ MainStep
    \/ WatcherStep
    \/ ConsumerStep

Spec == Init /\ [][Next]_vars

\* The three goroutines are scheduled fairly; the server and the caller owe
\* nothing (no message, no error and no cancellation need ever come).
LivePool == {FrameWarn, FrameGarbage}

InitLive == SessionStart(LiveFrames, LiveReadErrors) /\ rt = RetryIdle

NextLive ==
    \/ Cancel
    \/ \E frame \in LivePool : ReadMessage(frame)
    \/ ReadNetError
    \/ MainStep
    \/ WatcherStep
    \/ ConsumerStep

FairSpec ==
    /\ InitLive
    /\ [][NextLive]_vars
    /\ WF_vars(MainStep)
    /\ WF_vars(WatcherStep)
    /\ WF_vars(ConsumerStep)

\* ------------------------------------------------ the queue specification
\* Sessions long enough for msgBuffer to fill up; the server sends the same
\* payload every time.
QueuePool == {FrameWarn}

InitQueue == SessionStart(QueueFrames, QueueReadErrors) /\ rt = RetryIdle

NextQueue ==
    \/ Cancel
    \/ \E frame \in QueuePool : ReadMessage(frame)
    \/ ReadNetError
    \/ MainStep
    \/ WatcherStep
    \/ ConsumerStep

SpecQueue == InitQueue /\ [][NextQueue]_vars

\* ----------------------------------------------- the retry specification
\* retry(s, attempts, interval, max, do) for a do whose call number k is the
\* first to return nil (k = 0: it never does).  The error returned by call
\* number c is written c, and nil is written 0.
Intervals == {-1500, 0, 999, 1000, 5000}

MaxIntervals == {500, 120000}

Jitters == {0, 500, JitterRange - 1}

NoWait == << >>

RetryStart(attempts, interval, max, k) ==
    [pc |-> "loop", attempts |-> attempts, interval |-> interval,
     max |-> max, k |-> k, i |-> 0, err |-> 0, wait |-> NoWait,
     calls |-> 0, sleeps |-> 0, jitter |-> 0, ret |-> 0]

InitRetry ==
    /\ SessionStart(0, 0)
    /\ \E attempts \in 0..MaxAttempts, interval \in Intervals,
          max \in MaxIntervals, k \in 0..(MaxAttempts + 1) :
          rt = RetryStart(attempts, interval, max, k)

\* One iteration of the loop of retry: the sleep when i > 0, then do().
RetryIterate(jitter) ==
    /\ rt.pc = "loop"
    /\ LoopCondition(rt.i, rt.attempts)
    /\ LET slept  == rt.i > 0
           call   == rt.calls + 1
           result == IF rt.k # 0 /\ call >= rt.k THEN 0 ELSE call
           after  == [rt EXCEPT
                        !.wait = IF slept
                                 THEN Wait(BaseInterval(rt.interval), rt.i,
                                           jitter, rt.max)
                                 ELSE @,
                        !.sleeps = IF slept THEN @ + 1 ELSE @,
                        !.jitter = IF slept THEN jitter ELSE @,
                        !.calls = call,
                        !.err = result]
       IN  rt' = IF result = 0
                 THEN [after EXCEPT !.pc = "done", !.ret = 0]
                 ELSE [after EXCEPT !.i = @ + 1]
    /\ UNCHANGED <<mainVars, connVars, envVars, pipeVars, outVars, pcWatcher>>

\* The loop ends: `return` of the named result err.
RetryReturn ==
    /\ rt.pc = "loop"
    /\ ~LoopCondition(rt.i, rt.attempts)
    /\ rt' = [rt EXCEPT !.pc = "done", !.ret = rt.err]
    /\ UNCHANGED <<mainVars, connVars, envVars, pipeVars, outVars, pcWatcher>>

NextRetry ==
    \/ \E jitter \in Jitters : RetryIterate(jitter)
    \/ RetryReturn

SpecRetry == InitRetry /\ [][NextRetry]_vars

\* --------------------------------------------- the tracker specification
\* Set called by any number of goroutines: every call is one atomic store.
SetArgs == {-5, 0, 1, 2, 1000}

InitTracker == SessionStart(0, 0) /\ rt = RetryIdle

TrackerSet(arg) ==
    /\ Len(setLog) < MaxSets
    /\ ts' = Set(ts, arg)
    /\ setLog' = Append(setLog, arg)
    /\ UNCHANGED <<mainVars, connVars, envVars, pipeVars, sink, pcWatcher, rt>>

NextTracker == \E arg \in SetArgs : TrackerSet(arg)

SpecTracker == InitTracker /\ [][NextTracker]_vars

\* ================================================================= claims
RECURSIVE CloseControls(_)
CloseControls(p) ==
    IF p = 0 THEN 0 ELSE conns[p].closeCtl + CloseControls(p - 1)

\* close control messages written so far, over all connections
CloseControlsSent == CloseControls(Len(conns))

ClosedConns == {c \in 1..Len(conns) : ~conns[c].open}

\* C1: when ctx is cancelled while the main loop is blocked in ReadMessage,
\* the main loop never enters the reconnect path and never returns an error,
\* and eventually the watcher has closed the connection being read and the
\* session has returned nil.
C1_CancelDuringRead ==
    /\ [](cancelAt = "read" =>
            /\ pcMain \in {"read", "chk", "done"}
            /\ ret \in {"none", "nil"})
    /\ (cancelAt = "read") ~>
            (ret = "nil" /\ pcWatcher = "done" /\ ~conns[conn].open)

C1_Witness ==
    /\ cancelAt = "read"
    /\ ret = "nil"
    /\ err = "readClosed"
    /\ pcWatcher = "done"
    /\ ~conns[conn].open

\* C2: whenever ctx was cancelled after the initial dial succeeded and
\* before StreamLogsToLogger returned, the value returned is nil.
C2_CancelReturnsNil ==
    (ctxDone /\ cancelAt \notin {"dial", "done"} /\ pcMain = "done")
        => ret = "nil"

\* C3: at most one close control message is ever written, none before ctx
\* is cancelled; the watcher closes exactly the one connection it wrote the
\* close control to; and once ctx is cancelled in a session whose watcher
\* was started, the watcher does eventually complete that sequence.
C3_CloseControlOnce ==
    /\ [](/\ CloseControlsSent <= 1
          /\ (CloseControlsSent > 0 \/ ClosedConns # {}) => ctxDone
          /\ Cardinality(ClosedConns) <= 1
          /\ \A c \in ClosedConns : conns[c].closeCtl = 1
          /\ pcWatcher = "done" =>
                (CloseControlsSent = 1 /\ Cardinality(ClosedConns) = 1))
    /\ (ctxDone /\ pcWatcher # "idle") ~>
            (pcWatcher = "done" /\ CloseControlsSent = 1)

C3_Witness ==
    /\ pcWatcher = "done"
    /\ Len(conns) = 3
    /\ CloseControlsSent = 1
    /\ conns[3].closeCtl = 1

\* C4: a session that got past the initial dial and returns an error returns
\* the error of the read that started the reconnect, after the reconnect
\* dial used up all its attempts; it never returns the dial's error.
C4_OriginalReadError ==
    (pcMain = "done" /\ conn # 0 /\ ret # "nil") =>
        /\ dialTry = DialAttempts
        /\ err = "readNet"
        /\ ret = err

C4_Witness ==
    /\ pcMain = "done"
    /\ conn # 0
    /\ dialTry = DialAttempts
    /\ ret = "readNet"

\* C5: for attempts >= 1, sleeps = invocations - 1 at any moment after the
\* first invocation, no sleep exceeds max, and on return the action was
\* invoked min(k, attempts) times (attempts times when it never succeeds),
\* the result being nil when k <= attempts and the error of invocation
\* number attempts otherwise.
C5_RetryCounts ==
    (rt.pc # "idle" /\ rt.attempts >= 1) =>
        /\ rt.calls >= 1 => rt.sleeps = rt.calls - 1
        /\ rt.calls = 0 => rt.sleeps = 0
        /\ rt.wait # NoWait =>
                ~Greater(rt.wait, Milliseconds(NatBytes(rt.max, Bytes64)))
        /\ rt.pc = "done" =>
                IF rt.k \in 1..rt.attempts
                THEN rt.calls = rt.k /\ rt.ret = 0
                ELSE rt.calls = rt.attempts /\ rt.ret = rt.attempts

C5_Witness ==
    /\ rt.pc = "done"
    /\ rt.attempts = 3
    /\ rt.k = 0
    /\ rt.calls = 3
    /\ rt.sleeps = 2
    /\ rt.ret = 3

\* The numbers of C6 without wrapping: twice the width of an int64.
Wide == 2 * Bytes64

IdealWait(baseInterval, i, jitter, max) ==
    LET sum == Add(Seconds(Pow(baseInterval, i, Wide)),
                   Milliseconds(NatBytes(jitter, Wide)))
        cap == Milliseconds(NatBytes(max, Wide))
    IN  IF AboveFrom(sum, cap, Wide) THEN cap ELSE sum

Widen(a) == a \o [p \in 1..(Wide - Len(a)) |-> 0]

\* C6: the sleep before retry number i is min(b^i seconds + j, max), with b
\* the absolute value of the interval truncated to whole seconds and j the
\* jitter drawn for that sleep, 0 <= j <= 1000 ms.
C6_WaitFormula ==
    (rt.pc # "idle" /\ rt.wait # NoWait) =>
        /\ rt.jitter \in 0..1000
        /\ ~IsNegative(rt.wait)
        /\ Widen(rt.wait) =
              IdealWait(Abs(rt.interval) \div 1000, rt.sleeps, rt.jitter, rt.max)

\* the last argument >= 1 of a history of Set calls, 0 when there is none
LastApplied(log) ==
    LET applied == {p \in 1..Len(log) : log[p] >= 1}
    IN  IF applied = {} THEN 0
        ELSE log[CHOOSE p \in applied : \A q \in applied : q <= p]

\* C7: the stored watermark is the argument of the most recent Set call
\* whose argument is >= 1, and 0 when there was no such call.
C7_LastWriteWins == ts = LastApplied(setLog)

C7_Witness ==
    /\ setLog = <<1000, 2, -5>>
    /\ ts = 2

\* the timestamp of the first value of a StreamEntry, 0 without one
FirstValueTimestamp(entry) ==
    IF entry.Values = << >> THEN 0
    ELSE LET p == ParseInt(entry.Values[1][1]) IN IF p.err THEN 0 ELSE p.val

BatchMaximum(frame) ==
    LET all == {FirstValueTimestamp(frame.Streams[s]) :
                    s \in 1..Len(frame.Streams)} \cup {0}
    IN  CHOOSE t \in all : \A u \in all : u <= t

\* C8: the step of the consumer that renders a decoded batch stores the
\* maximum over its StreamEntries of the first value's timestamp when that
\* maximum is >= 1 and leaves the watermark alone otherwise; the timestamps
\* of the DroppedEntries play no part.
C8_WatermarkIsBatchMaximum ==
    [][(pcConsumer = "proc" /\ pcConsumer' # "proc" /\ cur.body.valid) =>
          /\ Len(sink') >= Len(sink)
          /\ ts' = IF BatchMaximum(cur.body) >= 1
                   THEN BatchMaximum(cur.body) ELSE ts]_vars

C8_Witness ==
    /\ pcConsumer = "recv"
    /\ cur.body = FrameMixed
    /\ ts = 300
    /\ \E p \in 1..Len(sink) :
          sink[p].msg = <<"dropped">> /\ sink[p].time = Unix(500)

\* C9: the step of the consumer on a message that does not decode appends
\* exactly one record, at error level, to the sink, leaves the watermark, the
\* queue and the main loop as they were, and takes the consumer back to the
\* head of its loop.
C9_DecodeErrorNotFatal ==
    [][(pcConsumer = "proc" /\ pcConsumer' # "proc" /\ ~cur.body.valid) =>
          /\ Len(sink') = Len(sink) + 1
          /\ SubSeq(sink', 1, Len(sink)) = sink
          /\ sink'[Len(sink')].lvl = "error"
          /\ sink'[Len(sink')].origin = <<cur.seq, 0, 0>>
          /\ ts' = ts
          /\ setLog' = setLog
          /\ msgBuffer' = msgBuffer
          /\ pcConsumer' = "recv"
          /\ pcMain' = pcMain
          /\ ret' = ret]_vars

C9_Witness ==
    \E p \in 1..Len(sink) : \E q \in (p + 1)..Len(sink) :
        /\ sink[p].lvl = "error"
        /\ sink[p].origin[1] = 1
        /\ sink[q].origin[1] = 2
        /\ sink[q].lvl # "error"

\* C10: the records of the sink that come from messages appear in the order
\* the messages were read, and the records of one StreamEntry appear in the
\* order of its values on the wire.
C10_ReceiptOrder ==
    \A p \in 1..Len(sink) : \A q \in (p + 1)..Len(sink) :
        LET a == sink[p].origin
            b == sink[q].origin
        IN  (a[1] # 0 /\ b[1] # 0) =>
                /\ a[1] <= b[1]
                /\ (a[1] = b[1] /\ a[2] = b[2]) => a[3] <= b[3]

C10_Witness ==
    \E p \in 1..Len(sink) : \E q \in (p + 1)..Len(sink) :
        /\ sink[p].origin = <<1, 1, 1>>
        /\ sink[q].origin = <<1, 1, 2>>
        /\ sink[p].time.ns > sink[q].time.ns
        /\ sink[Len(sink)].origin[1] = 2

\* the severities a level label may name, and the severity each stands for
Severities ==
    {"panic", "fatal", "error", "warn", "warning", "info", "debug", "trace"}

SeverityOf(level) == IF level = "warning" THEN "warn" ELSE level

\* the step of the consumer that renders a decoded batch
RenderStep == pcConsumer = "proc" /\ pcConsumer' # "proc" /\ cur.body.valid

\* C11: when the consumer renders a batch, every value of a StreamEntry whose
\* level label names a severity yields exactly one new sink record; it has
\* that severity, the value's text, and as fields every label of the entry
\* but level.
C11_KnownLevel ==
    [][RenderStep =>
        \A s \in 1..Len(cur.body.Streams) :
            LET entry == cur.body.Streams[s]
            IN  ("level" \in DOMAIN entry.Stream
                    /\ entry.Stream["level"] \in Severities) =>
                \A v \in 1..Len(entry.Values) :
                    LET at == {p \in (Len(sink) + 1)..Len(sink') :
                                  sink'[p].origin = <<cur.seq, s, v>>}
                    IN  /\ Cardinality(at) = 1
                        /\ \A p \in at :
                            /\ sink'[p].lvl = SeverityOf(entry.Stream["level"])
                            /\ sink'[p].msg = <<entry.Values[v][2]>>
                            /\ DOMAIN sink'[p].fields
                                 = DOMAIN entry.Stream \ {"level"}
                            /\ \A k \in DOMAIN sink'[p].fields :
                                 sink'[p].fields[k] = entry.Stream[k]]_vars

C11_Witness ==
    \E p \in 1..Len(sink) :
        /\ sink[p].lvl = "warn"
        /\ sink[p].fields = [job |-> "x"]
        /\ sink[p].msg = <<"hello">>
        /\ sink[p].time = Unix(200)
        /\ \A q \in 1..Len(sink) :
              sink[q].origin = sink[p].origin => q = p

\* C18: when the consumer renders a batch, every value of a StreamEntry whose
\* level is not a severity (the empty string when the entry has no level
\* label) yields exactly two new sink records, next to each other: first one
\* at info with the value's text, then one at warn naming the unknown level.
C18_UnknownLevel ==
    [][RenderStep =>
        \A s \in 1..Len(cur.body.Streams) :
            LET entry == cur.body.Streams[s]
                level == IF "level" \in DOMAIN entry.Stream
                         THEN entry.Stream["level"] ELSE ""
            IN  level \notin Severities =>
                \A v \in 1..Len(entry.Values) :
                    LET at == {p \in (Len(sink) + 1)..Len(sink') :
                                  sink'[p].origin = <<cur.seq, s, v>>}
                    IN  /\ Cardinality(at) = 2
                        /\ \E p \in at :
                            /\ p + 1 \in at
                            /\ sink'[p].lvl = "info"
                            /\ sink'[p].msg = <<entry.Values[v][2]>>
                            /\ sink'[p + 1].lvl = "warn"
                            /\ sink'[p + 1].msg =
                                 <<"last message had unknown level ", level>>]_vars

C18_Witness ==
    \E p \in 1..(Len(sink) - 1) :
        /\ sink[p].origin = sink[p + 1].origin
        /\ sink[p].fields = [job |-> "y"]
        /\ sink[p].lvl = "info"
        /\ sink[p].msg = <<"t">>
        /\ sink[p + 1].lvl = "warn"
        /\ sink[p + 1].msg = <<"last message had unknown level ", "">>

\* C12: once ctx is cancelled in a session whose initial dial succeeded,
\* StreamLogsToLogger eventually returns.
C12_CancelReturns == (ctxDone /\ conn # 0) ~> (pcMain = "done")

\* the watcher is between mconn.Lock() and mconn.Unlock()
WatcherInSection == pcWatcher \in {"write", "close"}

\* the main loop is between mconn.Lock() and mconn.Unlock()
MainInSection == pcMain = "swap"

\* C13: the watcher and the main loop are never both between Lock and
\* Unlock, the mutex is held by exactly the one that is, and after the
\* initial dial the conn variable changes only in a step the main loop takes
\* from inside its section, to newconn.
C13_MutualExclusion ==
    /\ [](/\ ~(WatcherInSection /\ MainInSection)
          /\ WatcherInSection <=> mconn = "watcher"
          /\ MainInSection <=> mconn = "main")
    /\ [][(conn # 0 /\ conn' # conn) =>
            /\ MainInSection
            /\ mconn = "main"
            /\ ~WatcherInSection
            /\ conn' = newconn]_vars

C13_Witness ==
    /\ MainInSection
    /\ mconn = "main"
    /\ ctxDone
    /\ pcWatcher = "wait"

\* C14: msgBuffer never holds more than 10 messages, and while the main loop
\* stands at the forward with 10 messages queued it reads nothing and does
\* not move, except to return nil once ctx is cancelled.
C14_Backpressure ==
    /\ [](Len(msgBuffer) <= 10)
    /\ [][(pcMain = "fwd" /\ Len(msgBuffer) = 10) =>
            /\ nRead' = nRead
            /\ \/ pcMain' = "fwd"
               \/ ctxDone /\ pcMain' = "done" /\ ret' = "nil"]_vars

C14_Witness ==
    /\ pcMain = "fwd"
    /\ Len(msgBuffer) = 10
    /\ ~ctxDone
    /\ pcConsumer = "proc"

\* C15: msgBuffer is closed at most once, exactly once in a session that got
\* past the initial dial and has returned, and never while the main loop is
\* still running; nothing is added to a closed msgBuffer, messages leave it
\* only into the consumer's hands; and once it is closed the consumer
\* eventually finds it empty and terminates.
C15_ClosedOnce ==
    /\ [](/\ bufClosed <= 1
          /\ bufClosed = 1 => pcMain = "done"
          /\ (pcMain = "done" /\ conn # 0) => bufClosed = 1
          /\ pcConsumer = "done" => (bufClosed = 1 /\ msgBuffer = << >>))
    /\ [][bufClosed >= 1 =>
            \/ msgBuffer' = msgBuffer
            \/ /\ msgBuffer # << >>
               /\ msgBuffer' = Tail(msgBuffer)
               /\ cur' = Head(msgBuffer)
               /\ pcConsumer' = "proc"]_vars
    /\ (bufClosed = 1) ~> (pcConsumer = "done" /\ msgBuffer = << >>)

C15_Witness ==
    /\ bufClosed = 1
    /\ pcMain = "done"
    /\ msgBuffer # << >>
    /\ pcConsumer = "recv"

\* C16: when the main loop enters the reconnect path, the start it dials
\* with is the watermark stored at that moment plus 1 ms (1000000 ns) when a
\* watermark is stored and the wall clock read at that moment otherwise;
\* every connection after the first carries the start so computed, never the
\* look-back start of the initial dial; and a successful reconnect dial ends
\* with its connection in conn and the main loop back at ReadMessage, the
\* session not having returned.
C16_ResumePoint ==
    /\ [][(pcMain = "chk" /\ pcMain' = "redial") =>
            since' = IF ts > 0
                     THEN [wall |-> FALSE, ns |-> ts + 1000000]
                     ELSE [wall |-> TRUE, ns |-> 0]]_vars
    /\ [][(pcMain = "redial" /\ pcMain' = "lock") =>
            /\ newconn' = Len(conns')
            /\ Len(conns') = Len(conns) + 1
            /\ conns'[newconn'].start = since
            /\ conns'[newconn'].open
            /\ ret' = "none"]_vars
    /\ [][(pcMain = "lock" \/ pcMain = "swap") =>
            /\ pcMain' \in {"lock", "swap", "read"}
            /\ pcMain' = "read" => conn' = newconn
            /\ ret' = "none"]_vars
    /\ [](\A c \in 2..Len(conns) : conns[c].start # LookBack)

C16_Witness ==
    /\ Len(conns) = 2
    /\ conn = 2
    /\ pcMain = "read"
    /\ ret = "none"
    /\ ts = 200
    /\ conns[2].start = [wall |-> FALSE, ns |-> 1000200]

\* messages handed to msgBuffer for which the consumer has not yet called
\* Set: those still queued and the one the consumer is working on
Pending == Len(msgBuffer) + (IF pcConsumer = "proc" THEN 1 ELSE 0)

\* C17: at the moment the main loop computes a resume point, at most 11
\* messages (10 queued and 1 in the hands of the consumer) have been
\* forwarded without the consumer having yet set the watermark from them.
C17_DuplicateWindow ==
    [][(pcMain = "chk" /\ pcMain' = "redial") => Pending <= 11]_vars

C17_Witness ==
    /\ pcMain = "redial"
    /\ dialTry = 0
    /\ Len(msgBuffer) = 10
    /\ pcConsumer = "proc"
    /\ since = Now

\* C19: when retry has returned nil, the action was invoked at least once
\* and its last invocation returned nil.
C19_NilMeansSuccess ==
    (rt.pc = "done" /\ rt.ret = 0) =>
        /\ rt.calls >= 1
        /\ rt.k # 0
        /\ rt.calls >= rt.k

\* C20: once ctx is cancelled, the session has returned and the watcher has
\* finished, no connection the session dialled is still open.
C20_AllConnsClosed ==
    (ctxDone /\ pcMain = "done" /\ pcWatcher = "done") =>
        \A c \in 1..Len(conns) : ~conns[c].open

====
